---- MODULE Spec2Model ----
(***************************************************************************)
(* Model of src/main.py: the per-chat job registry (processing_tasks,      *)
(* cancellation_flags), the process-wide dedup ledger                      *)
(* (SENT_MEDIA_URLS), the two job coroutines (process_video_links,         *)
(* process_media_scraper), the delivery functions (send_images,            *)
(* send_videos) and the send retry wrapper (_send_with_retry).             *)
(*                                                                         *)
(* Coroutines run on one asyncio event loop.  A step of the model is the   *)
(* code a coroutine runs between two suspensions: it starts when an        *)
(* awaited call returns and ends at the next await that suspends.  The pc  *)
(* of a job names the call it is suspended in.                             *)
(*                                                                         *)
(* Tasks made by create_task always run beside the handlers.  Spec makes   *)
(* no assumption on how the library dispatches updates: a handler that     *)
(* awaits (the .txt branch of message_handler) can be overtaken by the     *)
(* handler of a later update.  SpecSeq is the dispatch of the Application  *)
(* that main() builds: one update at a time.                               *)
(***************************************************************************)
EXTENDS Integers, Sequences, FiniteSets, TLC

(* ------------------------------ bounds -------------------------------- *)
\* Tasks created over the run (text and .txt submissions together).
MaxJobs == 2
\* Seed URLs in one submission.
MaxSeeds == 2
\* URLs handed to one send_images call in the delivery specification.
MaxBatchUrls == 12
\* Distinct image, video and gif references on a page of the extraction
\* specification, and iframes on it.
MaxImageRefs == 52
MaxVideoRefs == 22
MaxGifRefs == 12
MaxEmbeds == 3

(* ------------------------- program constants -------------------------- *)
\* send_images flushes a media group of this size (main.py:332).
GroupSize == 10
\* _send_with_retry: for attempt in range(3) (main.py:281).
RetryRange == 3
\* _send_with_retry gives up on a TelegramError when attempt == 2 (main.py:300).
GiveUpAttempt == 2
\* extract_video_links_from_html returns video_links[:5] (main.py:166).
LinksCap == 5
\* extract_media_from_page returns images[:50], videos[:20] (main.py:263-264).
ImagesCap == 50
VideosCap == 20
\* extract_media_from_page returns gifs[:10] (main.py:265).
GifsCap == 10

(* ------------------------------ universe ------------------------------ *)
Chats == {1, 2}
Modes == {"video_links", "media_scraper"}
\* What user_modes.get(chat_id) can return (main.py:486).
UserModes == Modes \cup {"none"}
SeedUrls == {"s1", "s2"}
JobIds == 1..MaxJobs

RECURSIVE SeqsUpTo(_, _)
\* All sequences over S of length 0..n.
SeqsUpTo(S, n) ==
  IF n = 0 THEN {<<>>}
  ELSE LET shorter == SeqsUpTo(S, n - 1)
       IN  shorter \cup {Append(q, x) : q \in {p \in shorter : Len(p) = n - 1}, x \in S}

\* What a message can carry: no URL at all, or 1..MaxSeeds seed URLs.
SeedLists == SeqsUpTo(SeedUrls, MaxSeeds)
\* The messages of the concurrent specification name one page only.
ShortLists == SeqsUpTo({"s2"}, MaxSeeds)

\* A media reference of a page: the absolute URL of an href / src / data-src
\* attribute and the list its path's extension puts it in (main.py:232-241).
Ref(kind, url) == [kind |-> kind, url |-> url]
\* What scrape_embedded_video returns for an iframe: a URL, or None.
Embed(ok, url) == [ok |-> ok, url |-> url]

\* The pages behind the seed URLs.  links: what extract_video_links_from_html
\* finds (every entry carries the page's title); tags: the media references
\* in document order; iframes: the page's iframes in document order.
Web ==
  [s \in SeedUrls |->
     IF s = "s1"
     THEN [title  |-> "T1", links |-> <<"x.mp4", "y.mp4">>,
           tags   |-> <<Ref("images", "a.jpg"), Ref("images", "b.webp"),
                        Ref("images", "a.jpg")>>,
           iframes |-> <<>>]
     ELSE [title  |-> "T2", links |-> <<"x.mp4">>,
           tags   |-> <<Ref("images", "a.jpg")>>,
           iframes |-> <<Embed(FALSE, "v.mp4"), Embed(TRUE, "v.mp4")>>]]

\* URLs of the delivery specification, in list order.
BatchUrlNames ==
  <<"i01.jpg", "i02.jpg", "i03.webp", "i04.jpg", "i05.jpg", "i06.jpg", "i07.jpg",
    "i08.jpg", "i09.jpg", "i10.jpg", "i11.jpg", "i12.jpg", "i13.jpg", "i14.jpg">>

MediaUrls == {"a.jpg", "b.webp", "v.mp4"} \cup {BatchUrlNames[n] : n \in 1..Len(BatchUrlNames)}

\* url.lower().endswith(".webp")
IsWebp(u) == u \in {"b.webp", "i03.webp"}

(* ------------------------------ helpers ------------------------------- *)
Range(q) == {q[n] : n \in 1..Len(q)}

\* [u for u in urls_list if u not in SENT_MEDIA_URLS]
FilterNew(q, ledger) == SelectSeq(q, LAMBDA u : u \notin ledger)

RECURSIVE DictItems(_)
\* list(dict(pairs).items()): pairs are (key, value) tuples; a key keeps the
\* position of its first occurrence and the value of its last one.
DictItems(pairs) ==
  IF pairs = <<>> THEN <<>>
  ELSE LET n    == Len(pairs)
           last == pairs[n]
           init == DictItems(SubSeq(pairs, 1, n - 1))
       IN  IF \E m \in 1..Len(init) : init[m][1] = last[1]
           THEN [m \in 1..Len(init) |->
                   IF init[m][1] = last[1] THEN <<init[m][1], last[2]>> ELSE init[m]]
           ELSE Append(init, last)

\* q[:n]
Prefix(q, n) == SubSeq(q, 1, IF Len(q) < n THEN Len(q) ELSE n)

\* media_urls = {"images": [], "videos": [], "gifs": []} (main.py:215)
NoMedia == [images |-> <<>>, videos |-> <<>>, gifs |-> <<>>]

\* CollectTags with a bug: a reference is appended whether or not its list
\* holds it already.
CollectTags_NoDedup(tags) ==
  [kind \in {"images", "videos", "gifs"} |->
     LET of_kind == SelectSeq(tags, LAMBDA t : t.kind = kind)
     IN  [n \in 1..Len(of_kind) |-> of_kind[n].url]]

\* One pass of the loop body at main.py:232-241: the reference joins the list
\* of its kind unless the list holds it already.
AddRef(media, t) ==
  IF t.url \in Range(media[t.kind]) THEN media
  ELSE [media EXCEPT ![t.kind] = Append(@, t.url)]

RECURSIVE CollectFrom(_, _)
\* The loop over the tags, started with the lists `media`: the first half of
\* the tags, then the second half.  (The test of DOMAIN media has the lists
\* of the first half computed before the second half is taken up.)
CollectFrom(tags, media) ==
  IF tags = <<>> \/ DOMAIN media = {} THEN media
  ELSE IF Len(tags) = 1 THEN AddRef(media, tags[1])
  ELSE LET half == Len(tags) \div 2
       IN  CollectFrom(SubSeq(tags, half + 1, Len(tags)),
                       CollectFrom(SubSeq(tags, 1, half), media))

\* main.py:224-241: the loop over the tags, in document order.
CollectTags(tags) == CollectFrom(tags, NoMedia)

RECURSIVE CollectEmbeds(_, _)
\* main.py:244-249: the loop over the iframes; a resolved video joins the
\* videos unless the list holds it already.
CollectEmbeds(iframes, media) ==
  IF iframes = <<>> THEN media
  ELSE LET n    == Len(iframes)
           e    == iframes[n]
           prev == CollectEmbeds(SubSeq(iframes, 1, n - 1), media)
       IN  IF e.ok /\ e.url \notin Range(prev.videos)
           THEN [prev EXCEPT !.videos = Append(@, e.url)]
           ELSE prev

(* ------------------------------- state -------------------------------- *)
VARIABLES
  SENT_MEDIA_URLS,     \* main.py:54, the dedup ledger
  cancellation_flags,  \* main.py:55, chat -> flag (FALSE: no entry)
  processing_tasks,    \* main.py:56, chat -> task (0: no entry)
  txt_pending,         \* message handlers suspended in the .txt branch
  jobs,                \* the tasks created so far, by task id
  loop_blocked_by,     \* the task that holds the event loop in a blocking call
  channel_sends,       \* history: url -> sends to the channel that carried it
  downloaded,          \* history: urls some delivery call downloaded
  web                  \* the pages the seed URLs lead to

vars == <<SENT_MEDIA_URLS, cancellation_flags, processing_tasks,
          txt_pending, jobs, loop_blocked_by, channel_sends, downloaded, web>>

\* extract_video_links: the page's links under the page's title, cut to
\* LinksCap, or [] when the fetch fails.
ExtractVideoLinks(url, ok) ==
  IF ok
  THEN Prefix([n \in 1..Len(web[url].links) |-> <<web[url].title, web[url].links[n]>>],
              LinksCap)
  ELSE <<>>

\* extract_media_from_page: the page's media, collected from the tags and then
\* from the iframes and cut to the caps, or empty lists when the fetch fails.
ExtractMedia(url, ok) ==
  IF ok
  THEN LET media == CollectEmbeds(web[url].iframes, CollectTags(web[url].tags))
       IN  [images |-> Prefix(media.images, ImagesCap),
            videos |-> Prefix(media.videos, VideosCap),
            gifs   |-> Prefix(media.gifs, GifsCap)]
  ELSE NoMedia

\* No call of _send_with_retry has just ended.
NoWrapper == [result |-> "none", tries |-> 0, rate_limited |-> 0]

\* A task that does not exist yet.  polled_cancel, ok_images, group_sends, wr
\* and unsent are history: whether the task found its flag raised; the URLs
\* the current send_images call downloaded and converted; the payloads that
\* call handed to _send_with_retry; how the call of _send_with_retry that
\* ended in the task's last step went; the URLs the task added to the ledger
\* that no call of _send_with_retry has carried yet.
NoJob ==
  [pc |-> "none", chat |-> 0, mode |-> "none", urls |-> <<>>, i |-> 0,
   all_links |-> <<>>, artifact |-> <<>>,
   images |-> <<>>, videos |-> <<>>, k |-> 0, media_group |-> <<>>,
   payload |-> <<>>, attempt |-> 0, rate_limited |-> 0,
   polled_cancel |-> FALSE, ok_images |-> <<>>, group_sends |-> <<>>,
   wr |-> NoWrapper, unsent |-> {}]

\* create_task(process_video_links(...)) / create_task(process_media_scraper(...)):
\* the coroutine runs up to its first await, the status-message send.
NewJob(c, m, urls) ==
  [NoJob EXCEPT !.pc = "status_send", !.chat = c, !.mode = m, !.urls = urls, !.i = 1]

\* pcs in which the task is suspended in a network call of the pipeline.
FetchPcs == {"m_extract", "v_fetch"}
DownloadPcs == {"img_dl", "vid_dl"}
SendPcs == {"img_send", "img_flush", "vid_send"}
\* pcs of a task whose coroutine has ended.
EndedPcs == {"done", "crashed"}

NumJobs == Cardinality({j \in JobIds : jobs[j].pc # "none"})
PendingKeys == Chats \X Modes

RECURSIVE SumPending(_, _)
SumPending(f, keys) ==
  IF keys = {} THEN 0
  ELSE LET h == CHOOSE x \in keys : TRUE IN f[h] + SumPending(f, keys \ {h})

\* Message handlers suspended between the busy check and the registration.
NumPending == SumPending(txt_pending, PendingKeys)

(* ------------------- process_media_scraper, delivery ------------------- *)
\* The locals of send_images / send_videos go out of scope.
ClearDelivery(r) ==
  [r EXCEPT !.images = <<>>, !.videos = <<>>, !.k = 0, !.media_group = <<>>,
            !.payload = <<>>, !.attempt = 0, !.rate_limited = 0,
            !.ok_images = <<>>, !.group_sends = <<>>]

\* main.py:310-311, 344-345 and 660-661: the flag is found raised inside a
\* delivery call, CancelledError reaches the job's handler, which edits the
\* status to "Canceled.".
RaiseCancelled(r) ==
  [ClearDelivery(r) EXCEPT !.pc = "m_cancel_status", !.polled_cancel = TRUE]

\* main.py:662-667: an exception other than CancelledError reaches the job.
MediaFailed(r) ==
  [ClearDelivery(r) EXCEPT !.pc = "m_err_status"]

\* main.py:653-658: after the loop the status becomes "Scraping complete!".
MediaPostLoop(r, polled) ==
  [ClearDelivery(r) EXCEPT !.pc = "m_final", !.polled_cancel = @ \/ polled]

\* main.py:624-636: top of the loop over the seed URLs.
MediaLoopTop(r, flag) ==
  IF r.i > Len(r.urls) THEN MediaPostLoop(r, FALSE)
  ELSE IF flag THEN MediaPostLoop(r, TRUE)
  ELSE [ClearDelivery(r) EXCEPT !.pc = "m_extract"]

\* main.py:650-651: pause between seed URLs, not after the last one.
AfterVideos(r) ==
  IF r.i < Len(r.urls) THEN [ClearDelivery(r) EXCEPT !.pc = "m_sleep"]
  ELSE MediaPostLoop(r, FALSE)

\* main.py:343-347: top of the loop of send_videos; r.k is the next index.
VidIter(r, flag) ==
  IF r.k > Len(r.videos) THEN AfterVideos(r)
  ELSE IF flag THEN RaiseCancelled(r)
  ELSE [r EXCEPT !.pc = "vid_dl"]

\* main.py:647-648: send_images has returned.
AfterImages(r, flag) ==
  IF r.videos # <<>>
  THEN VidIter([r EXCEPT !.images = <<>>, !.media_group = <<>>, !.k = 1], flag)
  ELSE AfterVideos(r)

\* _send_with_retry is entered with a payload: attempt 0 is in flight.
StartSend(r, pc, payload) ==
  [r EXCEPT !.pc = pc, !.payload = payload, !.attempt = 0, !.rate_limited = 0,
            !.group_sends = IF pc = "vid_send" THEN @ ELSE Append(@, payload),
            !.unsent = @ \ Range(payload)]

\* ImgIter with a bug: a raised flag sends the group collected so far.
ImgIter_FlushOnCancel(r, flag) ==
  IF r.k > Len(r.images)
  THEN IF r.media_group # <<>> THEN StartSend(r, "img_flush", r.media_group)
       ELSE AfterImages(r, flag)
  ELSE IF flag
       THEN IF r.media_group # <<>>
            THEN StartSend([r EXCEPT !.polled_cancel = TRUE], "img_flush", r.media_group)
            ELSE RaiseCancelled(r)
  ELSE [r EXCEPT !.pc = "img_dl"]

\* main.py:309-313 and 336-337: top of the loop of send_images; r.k is the
\* next index.  After the last URL a non-empty group is flushed.
ImgIter(r, flag) ==
  IF r.k > Len(r.images)
  THEN IF r.media_group # <<>> THEN StartSend(r, "img_flush", r.media_group)
       ELSE AfterImages(r, flag)
  ELSE IF flag THEN RaiseCancelled(r)
  ELSE [r EXCEPT !.pc = "img_dl"]

\* AppendImage with a bug: the group is sent when it has grown past GroupSize.
AppendImage_OffByOne(r, u, flag) ==
  LET group == Append(r.media_group, u)
  IN  IF Len(group) > GroupSize
      THEN StartSend([r EXCEPT !.media_group = group, !.ok_images = Append(@, u)],
                     "img_send", group)
      ELSE ImgIter([r EXCEPT !.media_group = group, !.ok_images = Append(@, u),
                             !.k = @ + 1], flag)

\* main.py:330-334: the downloaded image joins the group; a full group is sent.
AppendImage(r, u, flag) ==
  LET group == Append(r.media_group, u)
  IN  IF Len(group) = GroupSize
      THEN StartSend([r EXCEPT !.media_group = group, !.ok_images = Append(@, u)],
                     "img_send", group)
      ELSE ImgIter([r EXCEPT !.media_group = group, !.ok_images = Append(@, u),
                             !.k = @ + 1], flag)

\* AfterImageDownload with a bug: a failed download is an error of the job.
AfterImageDownload_AbortOnFailure(r, ok, conv_ok, flag) ==
  LET u == r.images[r.k]
  IN  IF ~ok THEN MediaFailed(r)
      ELSE IF IsWebp(u) /\ ~conv_ok THEN ImgIter([r EXCEPT !.k = @ + 1], flag)
      ELSE AppendImage(r, u, flag)

\* AfterImageDownload with a bug: a failed download ends the loop over images.
AfterImageDownload_SkipRest(r, ok, conv_ok, flag) ==
  LET u == r.images[r.k]
  IN  IF ~ok THEN AfterImages(r, flag)
      ELSE IF IsWebp(u) /\ ~conv_ok THEN ImgIter([r EXCEPT !.k = @ + 1], flag)
      ELSE AppendImage(r, u, flag)

\* main.py:313-328: download_media_as_bytes has returned for images[k].
AfterImageDownload(r, ok, conv_ok, flag) ==
  LET u == r.images[r.k]
  IN  IF ~ok THEN ImgIter([r EXCEPT !.k = @ + 1], flag)
      ELSE IF IsWebp(u) /\ ~conv_ok THEN ImgIter([r EXCEPT !.k = @ + 1], flag)
      ELSE AppendImage(r, u, flag)

\* MarkOnDownload with a bug: the URL is marked whether or not it downloaded.
MarkOnDownload_Always(ledger, u, ok) == ledger \cup {u}

\* MarkOnDownload with a bug: a downloaded URL is not marked.
MarkOnDownload_Never(ledger, u, ok) == ledger

\* MarkOnDownload with a bug: the ledger is replaced, not extended.
MarkOnDownload_Replace(ledger, u, ok) == IF ok THEN {u} ELSE ledger

\* main.py:314-315, 348-349: a URL is marked when its download succeeded.
MarkOnDownload(ledger, u, ok) == IF ok THEN ledger \cup {u} ELSE ledger

\* The code after _send_with_retry returned (or, in send_videos, raised).
AfterSend(r, flag) ==
  CASE r.pc = "img_send"  -> ImgIter([r EXCEPT !.media_group = <<>>, !.k = @ + 1], flag)
    [] r.pc = "img_flush" -> AfterImages(r, flag)
    [] r.pc = "vid_send"  -> VidIter([r EXCEPT !.k = @ + 1], flag)

\* WrapperStep with a bug: a TelegramError ends the wrapper one attempt early.
WrapperStep_GiveUpEarly(attempt, outcome) ==
  CASE outcome = "ok" -> "sent"
    [] outcome = "retry_after" ->
         IF attempt + 1 < RetryRange THEN "again" ELSE "gave_up"
    [] outcome = "telegram_error" ->
         IF attempt + 1 >= GiveUpAttempt THEN "gave_up" ELSE "again"
    [] outcome = "other_error" -> "raised"

\* main.py:281-302: how one attempt of _send_with_retry ends.
\*   "sent": the send succeeded; "again": another attempt follows;
\*   "gave_up": the wrapper returns without having sent; "raised": the
\*   exception leaves the wrapper.
WrapperStep(attempt, outcome) ==
  CASE outcome = "ok" -> "sent"
    [] outcome = "retry_after" ->
         IF attempt + 1 < RetryRange THEN "again" ELSE "gave_up"
    [] outcome = "telegram_error" ->
         IF attempt = GiveUpAttempt \/ attempt + 1 >= RetryRange THEN "gave_up" ELSE "again"
    [] outcome = "other_error" -> "raised"

SendOutcomes == {"ok", "retry_after", "telegram_error", "other_error"}
\* The outcomes after which _send_with_retry makes no further attempt.
PlainOutcomes == {"ok", "other_error"}

(* --------------------------- process_video_links ----------------------- *)
\* main.py:576-598: after the loop the links are deduplicated with dict() and
\* sent as a file, or "No video links found." is reported.
VideoPostLoop(r, polled) ==
  IF r.all_links # <<>>
  THEN [r EXCEPT !.pc = "v_send_doc", !.artifact = DictItems(r.all_links),
                 !.polled_cancel = @ \/ polled]
  ELSE [r EXCEPT !.pc = "v_nolinks", !.polled_cancel = @ \/ polled]

\* main.py:565-572: top of the loop over the seed URLs; the page fetch is a
\* blocking call.
VideoLoopTop(r, flag) ==
  IF r.i > Len(r.urls) THEN VideoPostLoop(r, FALSE)
  ELSE IF flag THEN VideoPostLoop(r, TRUE)
  ELSE [r EXCEPT !.pc = "v_fetch"]

(* ------------------------------- actions ------------------------------ *)
Init ==
  /\ SENT_MEDIA_URLS = {}
  /\ cancellation_flags = [c \in Chats |-> FALSE]
  /\ processing_tasks = [c \in Chats |-> 0]
  /\ txt_pending = [h \in PendingKeys |-> 0]
  /\ jobs = [j \in JobIds |-> NoJob]
  /\ loop_blocked_by = 0
  /\ channel_sends = [u \in MediaUrls |-> 0]
  /\ downloaded = {}
  /\ web = Web

JobStep(j, r) ==
  /\ jobs' = [jobs EXCEPT ![j] = r]
  /\ loop_blocked_by' = IF r.pc = "v_fetch" THEN j ELSE 0
  /\ UNCHANGED web

\* The coroutine is over: its locals are gone.
Ended(r, pc) == [NoJob EXCEPT !.pc = pc, !.chat = r.chat, !.mode = r.mode]

\* main.py:453-463: what cancel_command answers.
cancel_reply(c) == IF processing_tasks[c] # 0 THEN "acknowledged" ELSE "noActiveJob"

\* cancel_command with a bug: the flag is set whether or not the chat has a task.
cancel_command_Unconditional(c) ==
  /\ loop_blocked_by = 0
  /\ cancellation_flags' = [cancellation_flags EXCEPT ![c] = TRUE]
  /\ UNCHANGED <<SENT_MEDIA_URLS, processing_tasks, txt_pending, jobs,
                 loop_blocked_by, channel_sends, downloaded, web>>

\* cancel_command with a bug: the chat's task is cancelled at once, in the
\* call it is suspended in.
cancel_command_Interrupting(c) ==
  LET id == processing_tasks[c]
  IN  /\ loop_blocked_by = 0
      /\ cancellation_flags' =
           IF id # 0 THEN [cancellation_flags EXCEPT ![c] = TRUE]
           ELSE cancellation_flags
      /\ jobs' =
           IF id # 0 /\ jobs[id].pc \in DownloadPcs \cup SendPcs
           THEN [jobs EXCEPT ![id] = RaiseCancelled(@)]
           ELSE jobs
      /\ UNCHANGED <<SENT_MEDIA_URLS, processing_tasks, txt_pending,
                     loop_blocked_by, channel_sends, downloaded, web>>

\* cancel_command with a bug: the flag of every chat with an entry is set.
cancel_command_Broadcast(c) ==
  /\ loop_blocked_by = 0
  /\ cancellation_flags' =
       IF processing_tasks[c] # 0
       THEN [b \in Chats |-> cancellation_flags[b] \/ processing_tasks[b] # 0]
       ELSE cancellation_flags
  /\ UNCHANGED <<SENT_MEDIA_URLS, processing_tasks, txt_pending, jobs,
                 loop_blocked_by, channel_sends, downloaded, web>>

\* main.py:450-463, cancel_command.
cancel_command(c) ==
  /\ loop_blocked_by = 0
  /\ cancellation_flags' =
       IF processing_tasks[c] # 0 THEN [cancellation_flags EXCEPT ![c] = TRUE]
       ELSE cancellation_flags
  /\ UNCHANGED <<SENT_MEDIA_URLS, processing_tasks, txt_pending, jobs,
                 loop_blocked_by, channel_sends, downloaded, web>>

\* main.py:505-513 and 539-548: create_task, then processing_tasks[chat_id] = task.
Register(c, m, urls) ==
  LET id == NumJobs + 1
  IN  /\ jobs' = [jobs EXCEPT ![id] = NewJob(c, m, urls)]
      /\ processing_tasks' = [processing_tasks EXCEPT ![c] = id]

\* message_handler_text with a bug: the busy check is missing.
message_handler_text_NoBusyCheck(c, m, urls) ==
  /\ loop_blocked_by = 0
  /\ NumJobs + NumPending < MaxJobs
  /\ IF m = "none" \/ urls = <<>>
     THEN UNCHANGED <<jobs, processing_tasks>>
     ELSE Register(c, m, urls)
  /\ UNCHANGED <<SENT_MEDIA_URLS, cancellation_flags, txt_pending,
                 loop_blocked_by, channel_sends, downloaded, web>>

\* main.py:475-513, message_handler on a text message: no await lies between
\* the busy check and the registration.  m is user_modes.get(chat_id), which
\* button_callback sets at the user's wish and nothing else reads.
message_handler_text(c, m, urls) ==
  /\ loop_blocked_by = 0
  /\ NumJobs + NumPending < MaxJobs
  /\ IF processing_tasks[c] # 0 \/ m = "none" \/ urls = <<>>
     THEN UNCHANGED <<jobs, processing_tasks>>
     ELSE Register(c, m, urls)
  /\ UNCHANGED <<SENT_MEDIA_URLS, cancellation_flags, txt_pending,
                 loop_blocked_by, channel_sends, downloaded, web>>

\* main.py:475-524, message_handler on a .txt document: after the busy check
\* and the mode lookup the handler awaits reply_text, get_file and
\* download_to_drive.
message_handler_txt_begin(c, m) ==
  /\ loop_blocked_by = 0
  /\ NumJobs + NumPending < MaxJobs
  /\ txt_pending' =
       IF processing_tasks[c] # 0 \/ m = "none" THEN txt_pending
       ELSE [txt_pending EXCEPT ![<<c, m>>] = @ + 1]
  /\ UNCHANGED <<SENT_MEDIA_URLS, cancellation_flags, processing_tasks,
                 jobs, loop_blocked_by, channel_sends, downloaded, web>>

\* main.py:522-548: the awaited calls return (ok) or raise; the file's URLs
\* are read and the task is created and registered.
message_handler_txt_end(c, m, urls, ok) ==
  /\ loop_blocked_by = 0
  /\ txt_pending[<<c, m>>] > 0
  /\ txt_pending' = [txt_pending EXCEPT ![<<c, m>>] = @ - 1]
  /\ IF ok /\ urls # <<>> THEN Register(c, m, urls)
     ELSE UNCHANGED <<jobs, processing_tasks>>
  /\ UNCHANGED <<SENT_MEDIA_URLS, cancellation_flags, loop_blocked_by,
                 channel_sends, downloaded, web>>

\* main.py:556-560 and 617-621: the status-message send returns or raises; it
\* lies before the try block, so its exception ends the task at once.
StatusSent(j, ok) ==
  LET r == [jobs[j] EXCEPT !.wr = NoWrapper]
      flag == cancellation_flags[r.chat]
      next == IF ~ok THEN Ended(r, "crashed")
              ELSE IF r.mode = "video_links" THEN VideoLoopTop(r, flag)
              ELSE MediaLoopTop(r, flag)
  IN  /\ loop_blocked_by = 0
      /\ r.pc = "status_send"
      /\ JobStep(j, next)
      /\ UNCHANGED <<SENT_MEDIA_URLS, cancellation_flags, processing_tasks,
                     txt_pending, channel_sends, downloaded>>

\* main.py:636-648: extract_media_from_page returns; the lists are filtered
\* through the ledger and send_images / send_videos are entered.
MediaExtracted(j, ok) ==
  LET r == [jobs[j] EXCEPT !.wr = NoWrapper]
      flag == cancellation_flags[r.chat]
      media == ExtractMedia(r.urls[r.i], ok)
      r1 == [r EXCEPT !.images = FilterNew(media.images, SENT_MEDIA_URLS),
                      !.videos = FilterNew(media.videos, SENT_MEDIA_URLS),
                      !.k = 1, !.media_group = <<>>]
      next == IF r1.images # <<>> THEN ImgIter(r1, flag) ELSE AfterImages(r1, flag)
  IN  /\ loop_blocked_by = 0
      /\ r.pc = "m_extract"
      /\ JobStep(j, next)
      /\ UNCHANGED <<SENT_MEDIA_URLS, cancellation_flags, processing_tasks,
                     txt_pending, channel_sends, downloaded>>

\* main.py:313-334: the download of images[k] returns.
ImageDownloaded(j, ok, conv_ok) ==
  LET r0 == [jobs[j] EXCEPT !.wr = NoWrapper]
      flag == cancellation_flags[r0.chat]
      u == r0.images[r0.k]
      r == [r0 EXCEPT !.unsent = IF ok THEN @ \cup {u} ELSE @]
      next == AfterImageDownload(r, ok, conv_ok, flag)
  IN  /\ loop_blocked_by = 0
      /\ r0.pc = "img_dl"
      /\ SENT_MEDIA_URLS' = MarkOnDownload(SENT_MEDIA_URLS, u, ok)
      /\ downloaded' = IF ok THEN downloaded \cup {u} ELSE downloaded
      /\ JobStep(j, next)
      /\ UNCHANGED <<cancellation_flags, processing_tasks, txt_pending,
                     channel_sends>>

\* main.py:347-360: the download of videos[k] returns.
VideoDownloaded(j, ok) ==
  LET r0 == [jobs[j] EXCEPT !.wr = NoWrapper]
      flag == cancellation_flags[r0.chat]
      u == r0.videos[r0.k]
      r == [r0 EXCEPT !.unsent = IF ok THEN @ \cup {u} ELSE @]
      next == IF ok THEN StartSend(r, "vid_send", <<u>>)
              ELSE VidIter([r EXCEPT !.k = @ + 1], flag)
  IN  /\ loop_blocked_by = 0
      /\ r0.pc = "vid_dl"
      /\ SENT_MEDIA_URLS' = MarkOnDownload(SENT_MEDIA_URLS, u, ok)
      /\ downloaded' = IF ok THEN downloaded \cup {u} ELSE downloaded
      /\ JobStep(j, next)
      /\ UNCHANGED <<cancellation_flags, processing_tasks, txt_pending,
                     channel_sends>>

\* main.py:281-302: one attempt of _send_with_retry ends with `outcome`.
SendReturned(j, outcome) ==
  LET r == [jobs[j] EXCEPT !.wr = NoWrapper]
      flag == cancellation_flags[r.chat]
      step == WrapperStep(r.attempt, outcome)
      rl == r.rate_limited + (IF outcome = "retry_after" THEN 1 ELSE 0)
      after == IF step = "raised" /\ r.pc # "vid_send" THEN MediaFailed(r)
               ELSE AfterSend(r, flag)
      next == IF step = "again" THEN [r EXCEPT !.attempt = @ + 1, !.rate_limited = rl]
              ELSE [after EXCEPT !.wr = [result |-> step, tries |-> r.attempt + 1,
                                         rate_limited |-> rl]]
  IN  /\ loop_blocked_by = 0
      /\ r.pc \in SendPcs
      /\ channel_sends' =
           IF step = "sent"
           THEN [u \in MediaUrls |->
                   channel_sends[u] + (IF u \in Range(r.payload) THEN 1 ELSE 0)]
           ELSE channel_sends
      /\ JobStep(j, next)
      /\ UNCHANGED <<SENT_MEDIA_URLS, cancellation_flags, processing_tasks,
                     txt_pending, downloaded>>

\* main.py:650-651: the pause between two seed URLs is over.
MediaSleepDone(j) ==
  LET r == [jobs[j] EXCEPT !.wr = NoWrapper]
      next == MediaLoopTop([r EXCEPT !.i = @ + 1], cancellation_flags[r.chat])
  IN  /\ loop_blocked_by = 0
      /\ r.pc = "m_sleep"
      /\ JobStep(j, next)
      /\ UNCHANGED <<SENT_MEDIA_URLS, cancellation_flags, processing_tasks,
                     txt_pending, channel_sends, downloaded>>

\* ClearBookkeeping with a bug: the chat's flag is left behind.
ClearBookkeeping_KeepsFlag(c) ==
  /\ processing_tasks' = [processing_tasks EXCEPT ![c] = 0]
  /\ cancellation_flags' = cancellation_flags

\* main.py:608-610 and 668-670: the finally block of a job.
ClearBookkeeping(c) ==
  /\ processing_tasks' = [processing_tasks EXCEPT ![c] = 0]
  /\ cancellation_flags' = [cancellation_flags EXCEPT ![c] = FALSE]

\* main.py:653-670: the last status edits (and, after "complete", the
\* deletion of the status message, which may raise) return; the finally
\* block runs and the coroutine ends.
MediaFinished(j) ==
  LET r == [jobs[j] EXCEPT !.wr = NoWrapper]
  IN  /\ loop_blocked_by = 0
      /\ r.pc \in {"m_final", "m_cancel_status", "m_err_status"}
      /\ ClearBookkeeping(r.chat)
      /\ JobStep(j, Ended(r, "done"))
      /\ UNCHANGED <<SENT_MEDIA_URLS, txt_pending, channel_sends, downloaded>>

\* main.py:572-574: the blocking page fetch returns, the links are collected
\* and the task sleeps.
VideoFetched(j, ok) ==
  LET r == [jobs[j] EXCEPT !.wr = NoWrapper]
      next == [r EXCEPT !.pc = "v_sleep",
                        !.all_links = @ \o ExtractVideoLinks(r.urls[r.i], ok)]
  IN  /\ loop_blocked_by = j
      /\ r.pc = "v_fetch"
      /\ JobStep(j, next)
      /\ UNCHANGED <<SENT_MEDIA_URLS, cancellation_flags, processing_tasks,
                     txt_pending, channel_sends, downloaded>>

\* main.py:574 and 565-567: the pause after a page is over.
VideoSleepDone(j) ==
  LET r == [jobs[j] EXCEPT !.wr = NoWrapper]
      next == VideoLoopTop([r EXCEPT !.i = @ + 1], cancellation_flags[r.chat])
  IN  /\ loop_blocked_by = 0
      /\ r.pc = "v_sleep"
      /\ JobStep(j, next)
      /\ UNCHANGED <<SENT_MEDIA_URLS, cancellation_flags, processing_tasks,
                     txt_pending, channel_sends, downloaded>>

\* main.py:585-612: send_document (which may raise) or the status edit
\* returns; the finally block clears the bookkeeping and then awaits the
\* deletion of the status message.
VideoFinished(j) ==
  LET r == [jobs[j] EXCEPT !.wr = NoWrapper]
  IN  /\ loop_blocked_by = 0
      /\ r.pc \in {"v_send_doc", "v_nolinks"}
      /\ ClearBookkeeping(r.chat)
      /\ JobStep(j, Ended(r, "v_delete"))
      /\ UNCHANGED <<SENT_MEDIA_URLS, txt_pending, channel_sends, downloaded>>

\* main.py:611-612: the deletion of the status message returns or raises;
\* the coroutine ends.
VideoStatusDeleted(j) ==
  LET r == [jobs[j] EXCEPT !.wr = NoWrapper]
  IN  /\ loop_blocked_by = 0
      /\ r.pc = "v_delete"
      /\ JobStep(j, Ended(r, "done"))
      /\ UNCHANGED <<SENT_MEDIA_URLS, cancellation_flags, processing_tasks,
                     txt_pending, channel_sends, downloaded>>

\* A message arrives and its handler runs up to its end or its first await.
Accept(lists) ==
  \/ \E c \in Chats, m \in UserModes, urls \in lists : message_handler_text(c, m, urls)
  \/ \E c \in Chats, m \in UserModes : message_handler_txt_begin(c, m)

\* A suspended .txt handler resumes.
Resume(lists) ==
  \E c \in Chats, m \in Modes, urls \in lists, ok \in BOOLEAN :
     message_handler_txt_end(c, m, urls, ok)

\* A task resumes from the call it is suspended in; a send to the channel
\* ends in one of `outcomes`.
JobSteps(outcomes) ==
  \/ \E j \in JobIds, ok \in BOOLEAN : StatusSent(j, ok)
  \/ \E j \in JobIds, ok \in BOOLEAN : MediaExtracted(j, ok)
  \/ \E j \in JobIds, ok \in BOOLEAN, conv_ok \in BOOLEAN : ImageDownloaded(j, ok, conv_ok)
  \/ \E j \in JobIds, ok \in BOOLEAN : VideoDownloaded(j, ok)
  \/ \E j \in JobIds, outcome \in outcomes : SendReturned(j, outcome)
  \/ \E j \in JobIds : MediaSleepDone(j)
  \/ \E j \in JobIds : MediaFinished(j)
  \/ \E j \in JobIds, ok \in BOOLEAN : VideoFetched(j, ok)
  \/ \E j \in JobIds : VideoSleepDone(j)
  \/ \E j \in JobIds : VideoFinished(j)
  \/ \E j \in JobIds : VideoStatusDeleted(j)

\* The program: handlers and tasks interleave at their awaits.  The messages
\* name one page and the channel neither rate-limits nor fails with a
\* TelegramError (SpecSolo has the retries).
Next ==
  \/ Accept(ShortLists)
  \/ Resume(ShortLists)
  \/ \E c \in Chats : cancel_command(c)
  \/ JobSteps(PlainOutcomes)

Spec == Init /\ [][Next]_vars

\* main.py:686-691 and 707: the Application is built without concurrent
\* updates, so it takes up an update when the handler of the one before has
\* returned.  Tasks made by create_task run beside the handlers.
NoHandlerPending == NumPending = 0

\* The messages of the sequential specification carry no URL, or the page s2
\* twice (the second visit goes through the pause between two pages).
OnePageLists == {<<>>, <<"s2", "s2">>}

\* The program as main() sets it up: as Spec, with the handlers of the
\* updates run one after the other.
NextSeq ==
  \/ NoHandlerPending /\ Accept(OnePageLists)
  \/ Resume(OnePageLists)
  \/ NoHandlerPending /\ \E c \in Chats : cancel_command(c)
  \/ JobSteps(PlainOutcomes)

SpecSeq == Init /\ [][NextSeq]_vars

\* A message of chat c arrives.
AcceptFrom(c, lists) ==
  \/ \E m \in UserModes, urls \in lists : message_handler_text(c, m, urls)
  \/ \E m \in UserModes : message_handler_txt_begin(c, m)

\* The program with one accepted submission, over all the pages and every
\* outcome of a send.  A chat that has an entry in processing_tasks goes on
\* sending messages.
NextSolo ==
  \/ NumJobs = 0 /\ NumPending = 0 /\ Accept(SeedLists)
  \/ \E c \in Chats : processing_tasks[c] # 0 /\ AcceptFrom(c, ShortLists)
  \/ Resume(SeedLists)
  \/ \E c \in Chats : cancel_command(c)
  \/ JobSteps(SendOutcomes)

SpecSolo == Init /\ [][NextSolo]_vars

\* SpecSolo with the event loop's scheduling: the loop runs every callback
\* that is ready, so a task whose awaited call has returned or failed takes
\* its next step.
SpecLive == SpecSolo /\ WF_vars(JobSteps(SendOutcomes))

\* One send_images call on its own: process_media_scraper has extracted a
\* page with n new images (and no video) and has entered send_images.
InitBatch ==
  \E n \in 1..MaxBatchUrls :
    /\ SENT_MEDIA_URLS = {}
    /\ cancellation_flags = [c \in Chats |-> FALSE]
    /\ processing_tasks = [c \in Chats |-> IF c = 1 THEN 1 ELSE 0]
    /\ txt_pending = [h \in PendingKeys |-> 0]
    /\ jobs = [j \in JobIds |->
                 IF j = 1
                 THEN ImgIter([NewJob(1, "media_scraper", <<"s1">>) EXCEPT
                                 !.images = Prefix(BatchUrlNames, n), !.k = 1], FALSE)
                 ELSE NoJob]
    /\ loop_blocked_by = 0
    /\ channel_sends = [u \in MediaUrls |-> 0]
    /\ downloaded = {}
    /\ web = Web

NextBatch ==
  \/ \E c \in Chats : cancel_command(c)
  \/ \E j \in JobIds, ok \in BOOLEAN, conv_ok \in BOOLEAN : ImageDownloaded(j, ok, conv_ok)
  \/ \E j \in JobIds, outcome \in SendOutcomes : SendReturned(j, outcome)
  \/ \E j \in JobIds : MediaFinished(j)

SpecBatch == InitBatch /\ [][NextBatch]_vars

\* n references of one kind, all different.
RefsOf(kind, n) == [m \in 1..n |-> Ref(kind, <<kind, m>>)]

Reverse(q) == [n \in 1..Len(q) |-> q[Len(q) + 1 - n]]

\* A page with nI image, nV video and nG gif references; with `twice` every
\* reference occurs a second time, in the opposite order.  Iframe e resolves
\* to video nV - 1 + e (the first one to the last directly linked video), but
\* the second iframe resolves to nothing.
PageWith(nI, nV, nG, nE, twice) ==
  LET once == RefsOf("images", nI) \o RefsOf("videos", nV) \o RefsOf("gifs", nG)
  IN  [title   |-> "T1", links |-> <<>>,
       tags    |-> IF twice THEN once \o Reverse(once) ELSE once,
       iframes |-> [e \in 1..nE |-> Embed(e # 2, <<"videos", nV - 1 + e>>)]]

\* Numbers of references around a cap: none, and the last four up to max.
RefCounts(max) == {0} \cup ((max - 3)..max)

\* One extract_media_from_page call on its own: a media-scraper task awaits
\* the page of its only seed URL.
InitExtract ==
  \E nI \in RefCounts(MaxImageRefs), nV \in RefCounts(MaxVideoRefs),
     nG \in RefCounts(MaxGifRefs), nE \in 0..MaxEmbeds, twice \in BOOLEAN :
    /\ SENT_MEDIA_URLS = {}
    /\ cancellation_flags = [c \in Chats |-> FALSE]
    /\ processing_tasks = [c \in Chats |-> IF c = 1 THEN 1 ELSE 0]
    /\ txt_pending = [h \in PendingKeys |-> 0]
    /\ jobs = [j \in JobIds |->
                 IF j = 1
                 THEN MediaLoopTop(NewJob(1, "media_scraper", <<"s1">>), FALSE)
                 ELSE NoJob]
    /\ loop_blocked_by = 0
    /\ channel_sends = [u \in MediaUrls |-> 0]
    /\ downloaded = {}
    /\ web = [s \in SeedUrls |-> PageWith(nI, nV, nG, nE, twice)]

NextExtract == \E j \in JobIds, ok \in BOOLEAN : MediaExtracted(j, ok)

SpecExtract == InitExtract /\ [][NextExtract]_vars

(* ------------------------------- claims ------------------------------- *)
Running(j) == jobs[j].pc \notin {"none"} \cup EndedPcs

\* C1: at most one job task is running for any chat.
C1_OneTaskPerChat ==
  \A c \in Chats : Cardinality({j \in JobIds : Running(j) /\ jobs[j].chat = c}) <= 1

\* The URL a task suspended in a download is fetching.
DownloadUrl(r) == IF r.pc = "img_dl" THEN r.images[r.k] ELSE r.videos[r.k]

\* C2: no download starts for a URL that is in the ledger, and no URL is
\* carried by more than one send to the channel.
C2_NoRedelivery ==
  [][/\ \A j \in JobIds :
          (jobs'[j] # jobs[j] /\ jobs'[j].pc \in DownloadPcs)
            => DownloadUrl(jobs'[j]) \notin SENT_MEDIA_URLS'
     /\ \A u \in MediaUrls : channel_sends'[u] <= 1]_vars

\* C3: a task that has ended has no entry left in the job mapping.
C3_EndedTaskHasNoEntry ==
  \A j \in JobIds : jobs[j].pc \in EndedPcs => \A c \in Chats : processing_tasks[c] # j

\* C4 (as claimed): every URL in the ledger has been part of a send that
\* succeeded.
C4_MarkedAfterDelivery == \A u \in SENT_MEDIA_URLS : channel_sends[u] >= 1

\* C4 (amended): every URL in the ledger has been downloaded successfully by
\* a delivery call.
C4_MarkedAfterDownload == SENT_MEDIA_URLS \subseteq downloaded

\* C4 witness: a downloaded URL is in the ledger while no send has carried it.
C4_Witness == \E u \in SENT_MEDIA_URLS : u \in downloaded /\ channel_sends[u] = 0

\* C5: a job that found its cancellation flag raised reports "Canceled.", not
\* "Scraping complete!", a links file or "No video links found.".
C5_CancelReportsCancelled ==
  \A j \in JobIds :
    jobs[j].polled_cancel => jobs[j].pc \notin {"m_final", "v_send_doc", "v_nolinks"}

\* C6: a job that found its cancellation flag raised is never again suspended
\* in a page fetch, a media download or a send to the channel.
C6_NoWorkAfterCancel ==
  \A j \in JobIds :
    jobs[j].polled_cancel => jobs[j].pc \notin FetchPcs \cup DownloadPcs \cup SendPcs

\* C6 witness: a job found the flag raised inside a delivery call and is
\* reporting the cancellation.
C6_Witness == \E j \in JobIds : jobs[j].polled_cancel /\ jobs[j].pc = "m_cancel_status"

\* C7: the wrapper gives up on a payload only after RetryRange errors that
\* are not rate-limit signals.
C7_RateLimitNeverGivesUp ==
  \A j \in JobIds :
    jobs[j].wr.result = "gave_up" => jobs[j].wr.tries - jobs[j].wr.rate_limited = RetryRange

\* C8: when the wrapper gives up on a payload that met no rate-limit signal,
\* it has made exactly 3 attempts, it has not raised, and the job goes on.
C8_ThreeAttemptsThenDrop ==
  \A j \in JobIds :
    (jobs[j].wr.result = "gave_up" /\ jobs[j].wr.rate_limited = 0)
      => /\ jobs[j].wr.tries = 3
         /\ jobs[j].pc \in {"img_dl", "img_flush", "vid_dl", "m_sleep", "m_final",
                            "m_cancel_status"}

\* C8 witness: a payload was dropped after three attempts without a
\* rate-limit signal.
C8_Witness ==
  \E j \in JobIds :
    jobs[j].wr.result = "gave_up" /\ jobs[j].wr.rate_limited = 0 /\ jobs[j].wr.tries = 3

\* The title under which url was first collected.
FirstTitle(links, url) ==
  links[CHOOSE n \in 1..Len(links) :
          links[n][2] = url /\ \A m \in 1..(n - 1) : links[m][2] # url][1]

\* C9: the links file holds every collected video URL on exactly one line,
\* with the title under which it was first seen.
C9_DedupByUrl ==
  \A j \in JobIds :
    jobs[j].pc = "v_send_doc" =>
      LET links == jobs[j].all_links
          art == jobs[j].artifact
      IN  /\ {art[n][2] : n \in 1..Len(art)} = {links[n][2] : n \in 1..Len(links)}
          /\ \A a, b \in 1..Len(art) : a # b => art[a][2] # art[b][2]
          /\ \A n \in 1..Len(art) : art[n][1] = FirstTitle(links, art[n][2])

RECURSIVE Flatten(_)
Flatten(qq) == IF qq = <<>> THEN <<>> ELSE Head(qq) \o Flatten(Tail(qq))

\* Position of url in the list q.
IndexOf(q, url) == CHOOSE n \in 1..Len(q) : q[n] = url

\* The sends of a send_images call: ceil(N/10) groups for N usable images, of
\* 1..10 items, all but the last of 10, the items in the order of the list.
BatchedInTens(r) ==
  LET sends == r.group_sends
      n == Len(r.ok_images)
  IN  /\ Len(sends) = (n + GroupSize - 1) \div GroupSize
      /\ \A g \in 1..Len(sends) :
           /\ Len(sends[g]) \in 1..GroupSize
           /\ g < Len(sends) => Len(sends[g]) = GroupSize
      /\ Flatten(sends) = r.ok_images
      /\ \A a, b \in 1..n :
           a < b => IndexOf(r.images, r.ok_images[a]) < IndexOf(r.images, r.ok_images[b])

\* C10: when send_images returns without cancellation, its sends are the
\* usable images in groups of ten.
C10_BatchesOfTen ==
  [][\A j \in JobIds :
       (/\ jobs[j].pc \in {"img_dl", "img_send", "img_flush"}
        /\ jobs'[j].pc \in {"vid_dl", "m_sleep", "m_final"})
         => BatchedInTens(jobs[j])]_vars

\* C10 witness: a call has sent a full group and is flushing the rest.
C10_Witness ==
  \E j \in JobIds :
    /\ jobs[j].pc = "img_flush"
    /\ Len(jobs[j].group_sends) = 2
    /\ Len(jobs[j].group_sends[1]) = GroupSize
    /\ Len(jobs[j].group_sends[2]) \in 1..(GroupSize - 1)

\* Any step of task j, whatever the awaited call delivers.
TaskStep(j) ==
  \/ \E ok \in BOOLEAN : StatusSent(j, ok)
  \/ \E ok \in BOOLEAN : MediaExtracted(j, ok)
  \/ \E ok \in BOOLEAN, conv_ok \in BOOLEAN : ImageDownloaded(j, ok, conv_ok)
  \/ \E ok \in BOOLEAN : VideoDownloaded(j, ok)
  \/ \E outcome \in SendOutcomes : SendReturned(j, outcome)
  \/ MediaSleepDone(j)
  \/ MediaFinished(j)
  \/ \E ok \in BOOLEAN : VideoFetched(j, ok)
  \/ VideoSleepDone(j)
  \/ VideoFinished(j)
  \/ VideoStatusDeleted(j)

\* C11: while a task has a page fetch, a download or a send in flight, the
\* cancel handler of every chat and every other running task can take a step.
C11_LoopStaysFree ==
  \A j \in JobIds :
    jobs[j].pc \in FetchPcs \cup DownloadPcs \cup SendPcs
      => /\ \A c \in Chats : ENABLED cancel_command(c)
         /\ \A j2 \in JobIds \ {j} : Running(j2) => ENABLED TaskStep(j2)

\* pcs of a task inside send_images; r.k is the index of the image in work.
ImagePcs == {"img_dl", "img_send", "img_flush"}

\* send_images is suspended in its last call: no image of the list is left
\* to download and no collected image is left to send.
ImagesAllDone(r) ==
  CASE r.pc = "img_dl"    -> r.k = Len(r.images) /\ r.media_group = <<>>
    [] r.pc = "img_send"  -> r.k = Len(r.images)
    [] r.pc = "img_flush" -> r.k > Len(r.images)

\* C12: a task moves to the next seed URL only from the pause that follows
\* the previous one, one seed at a time, and it leaves the images of a seed
\* for its videos (or for the next seed) only when every image was downloaded
\* and every group was sent.
C12_SeedsAndKindsInOrder ==
  [][\A j \in JobIds :
       (jobs'[j] # jobs[j] /\ Running(j)) =>
         /\ (jobs'[j].i # jobs[j].i /\ jobs'[j].pc \notin EndedPcs \cup {"v_delete"})
              => (jobs[j].pc \in {"m_sleep", "v_sleep"} /\ jobs'[j].i = jobs[j].i + 1)
         /\ jobs'[j].pc \in FetchPcs => jobs[j].pc \in {"status_send", "m_sleep", "v_sleep"}
         /\ (jobs[j].pc \in ImagePcs /\ jobs'[j].pc \in {"vid_dl", "m_sleep", "m_final"})
              => ImagesAllDone(jobs[j])]_vars

\* C12 witness: the task downloads a video of its second seed URL after it
\* sent that seed's images.
C12_Witness ==
  \E j \in JobIds : jobs[j].pc = "vid_dl" /\ jobs[j].i = 2 /\ jobs[j].group_sends # <<>>

\* C13: a message of a chat that has an entry in processing_tasks changes
\* nothing: no task is created and the job mapping, the flags, the ledger and
\* the running task are as before.
C13_BusyChangesNothing ==
  [][\A c \in Chats :
       processing_tasks[c] # 0 =>
         /\ \A m \in UserModes, urls \in ShortLists :
              UNCHANGED vars \/ ~message_handler_text(c, m, urls)
         /\ \A m \in UserModes : UNCHANGED vars \/ ~message_handler_txt_begin(c, m)]_vars

\* C13 witness: a chat whose task is running can send a message with a URL.
C13_Witness ==
  \E c \in Chats :
    /\ processing_tasks[c] # 0
    /\ Running(processing_tasks[c])
    /\ ENABLED message_handler_text(c, "media_scraper", <<"s2">>)

\* C14: cancel_command answers "acknowledged" and sets the chat's flag, and
\* nothing else, when the chat has an entry in processing_tasks; otherwise it
\* answers "noActiveJob" and changes nothing.
C14_CancelSetsFlagIffActive ==
  [][\A c \in Chats :
       cancel_command(c) =>
         IF processing_tasks[c] # 0
         THEN /\ cancel_reply(c) = "acknowledged"
              /\ cancellation_flags' = [cancellation_flags EXCEPT ![c] = TRUE]
              /\ UNCHANGED <<SENT_MEDIA_URLS, processing_tasks, txt_pending, jobs,
                             loop_blocked_by, channel_sends, downloaded, web>>
         ELSE /\ cancel_reply(c) = "noActiveJob"
              /\ UNCHANGED vars]_vars

\* C14 witness: the flag of a chat with a running task is set.
C14_Witness ==
  \E c \in Chats :
    /\ cancellation_flags[c]
    /\ processing_tasks[c] # 0
    /\ Running(processing_tasks[c])

\* C15: whenever a chat has an entry in processing_tasks, the entry is
\* eventually removed (the job has ended and the chat is idle again).
C15_EveryJobEnds ==
  \A c \in Chats : (processing_tasks[c] # 0) ~> (processing_tasks[c] = 0)

\* C16: no step removes a URL from the ledger.
C16_LedgerOnlyGrows == [][SENT_MEDIA_URLS \subseteq SENT_MEDIA_URLS']_vars

\* C16 witness: a job has ended and its bookkeeping is cleared, the task of
\* another chat is running, and the URLs marked so far are in the ledger.
C16_Witness ==
  /\ Cardinality(SENT_MEDIA_URLS) >= 2
  /\ \E j1, j2 \in JobIds :
       /\ jobs[j1].pc = "done"
       /\ processing_tasks[jobs[j1].chat] = 0
       /\ Running(j2)
       /\ jobs[j2].chat # jobs[j1].chat

\* The elements of q in the order of their first occurrences.
FirstOccurrences(q) ==
  LET firsts == {n \in 1..Len(q) : \A m \in 1..(n - 1) : q[m] # q[n]}
  IN  [k \in 1..Cardinality(firsts) |->
         q[CHOOSE n \in firsts : Cardinality({m \in firsts : m < n}) = k - 1]]

\* Every reference of one kind a page offers, in the order of discovery: the
\* tags in document order, then (for videos) what the iframes resolve to.
Candidates(page, kind) ==
  LET tagged   == SelectSeq(page.tags, LAMBDA t : t.kind = kind)
      resolved == SelectSeq(page.iframes, LAMBDA e : e.ok)
  IN  [n \in 1..Len(tagged) |-> tagged[n].url]
        \o (IF kind = "videos" THEN [n \in 1..Len(resolved) |-> resolved[n].url]
            ELSE <<>>)

\* The page a task suspended in extract_media_from_page is fetching.
FetchedPage(r) == web[r.urls[r.i]]

\* C17: what extract_media_from_page returns for a page holds at most 50
\* images, 20 videos and 10 gifs, no reference twice, and each list is the
\* start of the page's references of that kind in first-discovered order.
C17_ExtractionCapped ==
  \A j \in JobIds :
    jobs[j].pc = "m_extract" =>
      LET out == ExtractMedia(jobs[j].urls[jobs[j].i], TRUE)
          cap == [images |-> 50, videos |-> 20, gifs |-> 10]
      IN  \A kind \in {"images", "videos", "gifs"} :
            /\ Len(out[kind]) <= cap[kind]
            /\ \A a, b \in 1..Len(out[kind]) : a # b => out[kind][a] # out[kind][b]
            /\ out[kind] = Prefix(FirstOccurrences(Candidates(FetchedPage(jobs[j]), kind)),
                                  cap[kind])

\* C17 witness: the extraction of a page with repeated references, iframes
\* and more references of every kind than the caps has returned 50 images and
\* 20 videos to the task.
C17_Witness ==
  \E j \in JobIds :
    /\ jobs[j].pc = "img_dl"
    /\ Len(jobs[j].images) = 50
    /\ Len(jobs[j].videos) = 20
    /\ Len(FetchedPage(jobs[j]).tags) > 2 * (50 + 20 + 10)
    /\ Len(FetchedPage(jobs[j]).iframes) >= 2

\* pcs from which the next step of a task reads its cancellation flag.
PollingPcs ==
  {"status_send", "m_extract", "m_sleep", "v_sleep"} \cup DownloadPcs \cup SendPcs

\* C18: the step that raises a flag leaves every task where it is; a task
\* whose flag is raised while it is inside _send_with_retry leaves the wrapper
\* only when the wrapper has sent, given up or raised; and a task finds its
\* flag raised only in a step of its own, after the call it was suspended in
\* has come to its end.
C18_CancelNeverInterrupts ==
  [][/\ (\E c \in Chats : cancellation_flags'[c] /\ ~cancellation_flags[c])
          => jobs' = jobs
     /\ \A j \in JobIds :
          (jobs'[j] # jobs[j] /\ jobs[j].pc \in SendPcs /\ cancellation_flags[jobs[j].chat])
            => \/ /\ jobs'[j].pc = jobs[j].pc
                  /\ jobs'[j].attempt = jobs[j].attempt + 1
                  /\ jobs'[j].payload = jobs[j].payload
               \/ jobs'[j].wr.result \in {"sent", "gave_up", "raised"}
     /\ \A j \in JobIds :
          (jobs'[j].polled_cancel /\ ~jobs[j].polled_cancel)
            => /\ jobs[j].pc \in PollingPcs
               /\ cancellation_flags[jobs[j].chat]
               /\ jobs[j].pc \in SendPcs
                    => jobs'[j].wr.result \in {"sent", "gave_up", "raised"}]_vars

\* C18 witness: the flag was raised while a send was in flight; the wrapper
\* made its three attempts and sent the payload, and the task found the flag
\* at the next poll.
C18_Witness ==
  \E j \in JobIds :
    /\ jobs[j].pc = "m_cancel_status"
    /\ jobs[j].polled_cancel
    /\ jobs[j].wr.result = "sent"
    /\ jobs[j].wr.tries = 3

\* The list a task suspended in a download is working through.
DownloadList(r) == IF r.pc = "img_dl" THEN r.images ELSE r.videos

\* C19: when a download fails, its URL is not marked and joins no group and
\* no send, the job does not fail, and the delivery call goes on: with the
\* download of the next URL of the list, or, after the last URL, with the
\* flush of the images collected before (unless the flag is raised, which
\* cancels the job).
C19_FailedDownloadSkipsOne ==
  [][\A j \in JobIds :
       (/\ jobs'[j] # jobs[j]
        /\ jobs[j].pc \in DownloadPcs
        /\ DownloadUrl(jobs[j]) \notin downloaded')
         => /\ SENT_MEDIA_URLS' = SENT_MEDIA_URLS
            /\ channel_sends' = channel_sends
            /\ DownloadUrl(jobs[j]) \notin
                 Range(jobs'[j].media_group) \cup Range(jobs'[j].payload)
            /\ jobs'[j].pc \notin {"m_err_status", "crashed"}
            /\ IF cancellation_flags[jobs[j].chat] /\ jobs'[j].pc \notin SendPcs
               THEN jobs'[j].pc \in {"m_cancel_status", "m_sleep", "m_final"}
               ELSE IF jobs[j].k < Len(DownloadList(jobs[j]))
               THEN /\ jobs'[j].pc = jobs[j].pc
                    /\ jobs'[j].k = jobs[j].k + 1
                    /\ DownloadList(jobs'[j]) = DownloadList(jobs[j])
                    /\ jobs'[j].media_group = jobs[j].media_group
               ELSE IF jobs[j].pc = "img_dl" /\ jobs[j].media_group # <<>>
               THEN jobs'[j].pc = "img_flush" /\ jobs'[j].payload = jobs[j].media_group
               ELSE jobs'[j].pc \in {"vid_dl", "m_sleep", "m_final"}]_vars

\* C19 witness: the first image of a page failed to download and the second
\* one is being downloaded.
C19_Witness ==
  \E j \in JobIds :
    /\ jobs[j].pc = "img_dl"
    /\ jobs[j].k = 2
    /\ jobs[j].images[1] \notin downloaded
    /\ jobs[j].images[1] \notin SENT_MEDIA_URLS

\* C20: the ledger holds exactly the URLs whose download succeeded, and a URL
\* is in the ledger as soon as it waits in a media group or is carried by a
\* send in flight.
C20_MarkedAtDownload ==
  /\ SENT_MEDIA_URLS = downloaded
  /\ \A j \in JobIds :
       Range(jobs[j].media_group) \cup Range(jobs[j].payload) \subseteq SENT_MEDIA_URLS

\* C20 witness: the first attempt to send a group is in flight; its images
\* are in the ledger and no send has carried them, and an image of the same
\* list whose download failed is not in the ledger.
C20_Witness ==
  \E j \in JobIds :
    /\ jobs[j].pc = "img_flush"
    /\ jobs[j].attempt = 0
    /\ \A u \in Range(jobs[j].payload) : u \in SENT_MEDIA_URLS /\ channel_sends[u] = 0
    /\ \E u \in Range(jobs[j].images) : u \notin SENT_MEDIA_URLS

\* pcs of a media-scraper task whose work is over: only the last status edit
\* and the finally block are left.
ReportingPcs == {"m_final", "m_cancel_status", "m_err_status"}

\* C21: when the work of a job is over, every URL the job added to the ledger
\* has been carried by a call of _send_with_retry.
C21_MarkedWereHandedOver ==
  \A j \in JobIds : jobs[j].pc \in ReportingPcs => jobs[j].unsent = {}

\* C22: a chat's flag is set only while the chat has an entry in
\* processing_tasks, and the flag of a chat is not set when a task is
\* created for it.
C22_FlagOnlyWithEntry ==
  [][/\ \A c \in Chats : cancellation_flags[c] => processing_tasks[c] # 0
     /\ \A c \in Chats : cancellation_flags'[c] => processing_tasks'[c] # 0
     /\ \A j \in JobIds :
          (jobs[j].pc = "none" /\ jobs'[j].pc # "none")
            => ~cancellation_flags'[jobs'[j].chat]]_vars

\* C22 witness: a chat whose earlier job has ended has a new task, just
\* created, and its flag is not set.
C22_Witness ==
  \E j1, j2 \in JobIds :
    /\ jobs[j1].pc = "done"
    /\ jobs[j2].pc = "status_send"
    /\ jobs[j2].chat = jobs[j1].chat
    /\ processing_tasks[jobs[j2].chat] = j2
    /\ ~cancellation_flags[jobs[j2].chat]

\* C23: cancellation is per chat.  A step that sets the flag of a chat is a
\* cancel for that chat and touches no task and no other chat's flag; a task
\* finds a flag set, or turns to the "Canceled." report, only when the flag
\* of its own chat is set; a step of a task leaves the entry and the flag of
\* every other chat as they are.
C23_CancelIsPerChat ==
  [][/\ \A a \in Chats :
          (cancellation_flags'[a] /\ ~cancellation_flags[a])
            => /\ cancel_command(a)
               /\ jobs' = jobs
               /\ \A b \in Chats \ {a} :
                    cancellation_flags'[b] = cancellation_flags[b]
     /\ \A j \in JobIds :
          (\/ jobs'[j].polled_cancel /\ ~jobs[j].polled_cancel
           \/ jobs'[j].pc = "m_cancel_status" /\ jobs[j].pc # "m_cancel_status")
            => cancellation_flags[jobs[j].chat]
     /\ \A j \in JobIds :
          (jobs[j].pc # "none" /\ jobs'[j] # jobs[j])
            => \A b \in Chats \ {jobs[j].chat} :
                 /\ processing_tasks'[b] = processing_tasks[b]
                 /\ cancellation_flags'[b] = cancellation_flags[b]]_vars

\* C23 witness: the job of one chat found its flag set and reports
\* "Canceled." while the job of the other chat runs on, registered, with its
\* flag not set and no poll answered.
C23_Witness ==
  \E j1, j2 \in JobIds :
    /\ jobs[j1].chat # jobs[j2].chat
    /\ jobs[j1].pc = "m_cancel_status"
    /\ jobs[j1].polled_cancel
    /\ Running(j2)
    /\ jobs[j2].pc \in DownloadPcs \cup SendPcs
    /\ processing_tasks[jobs[j2].chat] = j2
    /\ ~cancellation_flags[jobs[j2].chat]
    /\ ~jobs[j2].polled_cancel
====
